---- MODULE Spec2Model ----
(***************************************************************************)
(* Model of the thread pool of webserver/threadpool.h and of the           *)
(* synchronisation wrappers of webserver/locker.h.                         *)
(*                                                                         *)
(* One pool object is constructed with the arguments (thread_number,       *)
(* max_requests).  The producers call append(); every worker thread        *)
(* created by the constructor runs run().  Each statement of append() and  *)
(* run() that touches shared state is one atomic step, so that every       *)
(* interleaving of the statements of different threads is explored.        *)
(***************************************************************************)
EXTENDS Integers, Sequences, FiniteSets, TLC

(* ------------------------------ bounds -------------------------------- *)
\* Number of producer threads calling append().
NumProducers == 2
\* Largest thread_number given to the constructor.
MaxWorkers == 2
\* Largest max_requests given to the constructor.
MaxRequests == 2
\* Total number of append() calls made by all producers together.
MaxSubmits == 3
\* Number of distinct non-null task objects.
NumTasks == 1

\* The null task pointer.
NULL == 0

Producers == 1..NumProducers
Workers == 1..MaxWorkers
\* The values a T* request can take: NULL or one of the task objects.
Requests == 0..NumTasks
\* The arguments the constructor can be called with (non-positive included).
ThreadNumberArgs == (0 - 1)..MaxWorkers
MaxRequestsArgs == (0 - 1)..MaxRequests

\* The thread that owns m_queuelocker; NoThread when it is unlocked.
NoThread == <<"none", 0>>
ProducerThread(p) == <<"producer", p>>
WorkerThread(w) == <<"worker", w>>

\* An entry of the queue: the request pointer and, to tell apart two
\* insertions of the same pointer, the arrival number of the insertion.
Entry(r, t) == [request |-> r, ticket |-> t]
NoEntry == Entry(NULL, 0)
\* The arrival numbers the insertions can get.
Tickets == 1..MaxSubmits

VARIABLES
    thread_number,  \* constructor argument, m_thread_number
    max_requests,   \* constructor argument, m_max_requests
    ctor,           \* position of the constructor
    created,        \* loop variable i of the constructor: threads created so far
    m_stop,         \* threadpool::m_stop
    m_workqueue,    \* threadpool::m_workqueue: sequence of [request, ticket]
    m_queuelocker,  \* owner of the mutex m_queuelocker
    m_queuestat,    \* value of the semaphore m_queuestat
    ppc,            \* position of each producer inside append()
    preq,           \* argument request of each producer's current append()
    pret,           \* return value of each producer's last append()
    pposts,         \* m_queuestat.post() calls made by the current append()
    psize,          \* m_workqueue.size() as read by the current append()
    wpc,            \* position of each worker inside run()
    wreq,           \* local variable request of each worker
    submits,        \* number of append() calls started
    tickets,        \* number of push_back calls done (arrival order)
    enqueued,       \* per request value: push_back calls made by append()
    accepted,       \* per request value: append() calls that returned true
    executed,       \* per request value: process() calls made
    runs,           \* per insertion (ticket): process() calls made for it
    dequeued        \* tickets in the order pop_front removed them

vars == <<thread_number, max_requests, ctor, created, m_stop, m_workqueue,
          m_queuelocker, m_queuestat, ppc, preq, pret, pposts, psize, wpc,
          wreq,
          submits, tickets, enqueued, accepted, executed, runs, dequeued>>

ctorVars == <<thread_number, max_requests, ctor, created>>
poolVars == <<m_stop, m_workqueue, m_queuelocker, m_queuestat>>
producerVars == <<ppc, preq, pret, pposts, psize, submits, enqueued, accepted>>
workerVars == <<wpc, wreq, executed, runs, dequeued>>

(* ------------------------- locker.h wrappers -------------------------- *)
\* locker::lock() returns once the calling thread owns the mutex.
LockEnabled == m_queuelocker = NoThread

\* A wait() that also returns when the value is 0.
SemWaitReturnsAtZero == m_queuestat >= 0

\* sem::wait() returns once the value was positive and has been decremented.
SemWaitEnabled == m_queuestat > 0

\* A post() that leaves the value as it was.
SemPostLost(v) == v

\* A post() that adds two to the value.
SemPostTwice(v) == v + 2

\* sem::post() increments the value.
SemPost(v) == v + 1

\* sem::sem() initialises the value to 0.
SemInit == 0

(* ---------------------------- constructor ----------------------------- *)
\* An argument check that forgets max_requests.
BadArgsThreadsOnly(tn, mr) == tn <= 0

\* threadpool.h line 63: the argument check of the constructor.
BadArgs(tn, mr) == (tn <= 0) \/ (mr <= 0)

Init ==
    /\ thread_number \in ThreadNumberArgs
    /\ max_requests \in MaxRequestsArgs
    /\ ctor = "check"
    /\ created = 0
    /\ m_stop = FALSE
    /\ m_workqueue = <<>>
    /\ m_queuelocker = NoThread
    /\ m_queuestat = SemInit
    /\ ppc = [p \in Producers |-> "idle"]
    /\ preq = [p \in Producers |-> NULL]
    /\ pret = [p \in Producers |-> FALSE]
    /\ pposts = [p \in Producers |-> 0]
    /\ psize = [p \in Producers |-> 0]
    /\ wpc = [w \in Workers |-> "none"]
    /\ wreq = [w \in Workers |-> NoEntry]
    /\ submits = 0
    /\ tickets = 0
    /\ enqueued = [r \in Requests |-> 0]
    /\ accepted = [r \in Requests |-> 0]
    /\ executed = [r \in Requests |-> 0]
    /\ runs = [t \in Tickets |-> 0]
    /\ dequeued = <<>>

\* Lines 63-65: invalid arguments make the constructor throw.
CtorCheck ==
    /\ ctor = "check"
    /\ ctor' = IF BadArgs(thread_number, max_requests) THEN "failed" ELSE "alloc"
    /\ UNCHANGED <<thread_number, max_requests, created>>
    /\ UNCHANGED <<poolVars, producerVars, workerVars, tickets>>

\* Lines 67-70: new pthread_t[m_thread_number]; the allocation can fail.
CtorAlloc ==
    /\ ctor = "alloc"
    /\ ctor' \in {"create", "failed"}
    /\ UNCHANGED <<thread_number, max_requests, created>>
    /\ UNCHANGED <<poolVars, producerVars, workerVars, tickets>>

\* A creation loop that runs once more than thread_number times.
CtorCreateOneMore ==
    /\ ctor = "create"
    /\ IF created <= thread_number /\ created < MaxWorkers
       THEN \/ /\ wpc' = [wpc EXCEPT ![created + 1] = "top"]
               /\ ctor' = "detach"
            \/ /\ ctor' = "failed"
               /\ UNCHANGED wpc
       ELSE /\ ctor' = "done"
            /\ UNCHANGED wpc
    /\ UNCHANGED <<thread_number, max_requests, created>>
    /\ UNCHANGED <<poolVars, producerVars, wreq, executed, runs, dequeued, tickets>>

\* Lines 73-75: loop test and pthread_create of thread number `created`.
CtorCreate ==
    /\ ctor = "create"
    /\ IF created < thread_number
       THEN \/ /\ wpc' = [wpc EXCEPT ![created + 1] = "top"]
               /\ ctor' = "detach"
            \/ /\ ctor' = "failed"      \* lines 97-98
               /\ UNCHANGED wpc
       ELSE /\ ctor' = "done"
            /\ UNCHANGED wpc
    /\ UNCHANGED <<thread_number, max_requests, created>>
    /\ UNCHANGED <<poolVars, producerVars, wreq, executed, runs, dequeued, tickets>>

\* Lines 101-115: pthread_detach of the thread just created, then ++i.
CtorDetach ==
    /\ ctor = "detach"
    /\ \/ /\ ctor' = "create"
          /\ created' = created + 1
       \/ /\ ctor' = "failed"           \* lines 113-114
          /\ UNCHANGED created
    /\ UNCHANGED <<thread_number, max_requests>>
    /\ UNCHANGED <<poolVars, producerVars, workerVars, tickets>>

\* A destructor that also posts the semaphore once for every worker.
DestructorWakesWorkers ==
    /\ ctor = "done"
    /\ m_stop = FALSE
    /\ m_stop' = TRUE
    /\ m_queuestat' = m_queuestat + thread_number
    /\ UNCHANGED <<m_workqueue, m_queuelocker>>
    /\ UNCHANGED <<ctorVars, producerVars, workerVars, tickets>>

\* Lines 119-127: the destructor of a constructed pool sets m_stop.
Destructor ==
    /\ ctor = "done"
    /\ m_stop = FALSE
    /\ m_stop' = TRUE
    /\ UNCHANGED <<m_workqueue, m_queuelocker, m_queuestat>>
    /\ UNCHANGED <<ctorVars, producerVars, workerVars, tickets>>

(* ------------------------------ append -------------------------------- *)
\* A capacity test that lets one request too many in.
QueueOverfull(q, mr) == Len(q) > mr

\* Line 136: m_workqueue.size() >= m_max_requests.
QueueFull(q, mr) == Len(q) >= mr

\* An insertion at the head instead of the tail.
PushFront(q, e) == <<e>> \o q

\* Line 144: m_workqueue.push_back(request).
PushBack(q, e) == Append(q, e)

\* A producer calls append(request) on the constructed pool.
AppendCall(p, r) ==
    /\ ctor = "done"
    /\ ppc[p] = "idle"
    /\ submits < MaxSubmits
    /\ submits' = submits + 1
    /\ ppc' = [ppc EXCEPT ![p] = "lock"]
    /\ preq' = [preq EXCEPT ![p] = r]
    /\ UNCHANGED <<pret, pposts, psize, enqueued, accepted>>
    /\ UNCHANGED <<ctorVars, poolVars, workerVars, tickets>>

\* An append() that goes on to the capacity test without taking the mutex.
AppendLockSkipped(p) ==
    /\ ppc[p] = "lock"
    /\ ppc' = [ppc EXCEPT ![p] = "check"]
    /\ UNCHANGED <<preq, pret, pposts, psize, submits, enqueued, accepted>>
    /\ UNCHANGED <<ctorVars, poolVars, workerVars, tickets>>

\* Line 135: m_queuelocker.lock().
AppendLock(p) ==
    /\ ppc[p] = "lock"
    /\ LockEnabled
    /\ m_queuelocker' = ProducerThread(p)
    /\ ppc' = [ppc EXCEPT ![p] = "check"]
    /\ UNCHANGED <<m_stop, m_workqueue, m_queuestat>>
    /\ UNCHANGED <<preq, pret, pposts, psize, submits, enqueued, accepted>>
    /\ UNCHANGED <<ctorVars, workerVars, tickets>>

\* A capacity test that also rejects once the stop flag is set.
AppendCheckRefusesAfterStop(p) ==
    /\ ppc[p] = "check"
    /\ psize' = [psize EXCEPT ![p] = Len(m_workqueue)]
    /\ ppc' = [ppc EXCEPT ![p] =
                 IF m_stop \/ QueueFull(m_workqueue, max_requests)
                 THEN "unlock_full" ELSE "push"]
    /\ UNCHANGED <<preq, pret, pposts, submits, enqueued, accepted>>
    /\ UNCHANGED <<ctorVars, poolVars, workerVars, tickets>>

\* Line 136: the capacity test.
AppendCheck(p) ==
    /\ ppc[p] = "check"
    /\ psize' = [psize EXCEPT ![p] = Len(m_workqueue)]
    /\ ppc' = [ppc EXCEPT ![p] =
                 IF QueueFull(m_workqueue, max_requests) THEN "unlock_full"
                                                         ELSE "push"]
    /\ UNCHANGED <<preq, pret, pposts, submits, enqueued, accepted>>
    /\ UNCHANGED <<ctorVars, poolVars, workerVars, tickets>>

\* A rejecting path that posts the semaphore all the same.
AppendUnlockFullPosts(p) ==
    /\ ppc[p] = "unlock_full"
    /\ m_queuelocker' = NoThread
    /\ m_queuestat' = SemPost(m_queuestat)
    /\ pposts' = [pposts EXCEPT ![p] = @ + 1]
    /\ ppc' = [ppc EXCEPT ![p] = "ret_false"]
    /\ UNCHANGED <<m_stop, m_workqueue>>
    /\ UNCHANGED <<preq, pret, psize, submits, enqueued, accepted>>
    /\ UNCHANGED <<ctorVars, workerVars, tickets>>

\* Line 141: m_queuelocker.unlock() on the rejecting path.
AppendUnlockFull(p) ==
    /\ ppc[p] = "unlock_full"
    /\ m_queuelocker' = NoThread
    /\ ppc' = [ppc EXCEPT ![p] = "ret_false"]
    /\ UNCHANGED <<m_stop, m_workqueue, m_queuestat>>
    /\ UNCHANGED <<preq, pret, pposts, psize, submits, enqueued, accepted>>
    /\ UNCHANGED <<ctorVars, workerVars, tickets>>

\* Line 144: push_back at the tail.
AppendPush(p) ==
    /\ ppc[p] = "push"
    /\ m_workqueue' = PushBack(m_workqueue, Entry(preq[p], tickets + 1))
    /\ tickets' = tickets + 1
    /\ enqueued' = [enqueued EXCEPT ![preq[p]] = @ + 1]
    /\ ppc' = [ppc EXCEPT ![p] = "unlock"]
    /\ UNCHANGED <<m_stop, m_queuelocker, m_queuestat>>
    /\ UNCHANGED <<preq, pret, pposts, psize, submits, accepted>>
    /\ UNCHANGED <<ctorVars, workerVars>>

\* Line 145: m_queuelocker.unlock() on the accepting path.
AppendUnlock(p) ==
    /\ ppc[p] = "unlock"
    /\ m_queuelocker' = NoThread
    /\ ppc' = [ppc EXCEPT ![p] = "post"]
    /\ UNCHANGED <<m_stop, m_workqueue, m_queuestat>>
    /\ UNCHANGED <<preq, pret, pposts, psize, submits, enqueued, accepted>>
    /\ UNCHANGED <<ctorVars, workerVars, tickets>>

\* Line 151: m_queuestat.post().
AppendPost(p) ==
    /\ ppc[p] = "post"
    /\ m_queuestat' = SemPost(m_queuestat)
    /\ pposts' = [pposts EXCEPT ![p] = @ + 1]
    /\ ppc' = [ppc EXCEPT ![p] = "ret_true"]
    /\ UNCHANGED <<m_stop, m_workqueue, m_queuelocker>>
    /\ UNCHANGED <<preq, pret, psize, submits, enqueued, accepted>>
    /\ UNCHANGED <<ctorVars, workerVars, tickets>>

\* Line 142: return false; the call and its bookkeeping end.
AppendReturnFalse(p) ==
    /\ ppc[p] = "ret_false"
    /\ pret' = [pret EXCEPT ![p] = FALSE]
    /\ ppc' = [ppc EXCEPT ![p] = "idle"]
    /\ preq' = [preq EXCEPT ![p] = NULL]
    /\ pposts' = [pposts EXCEPT ![p] = 0]
    /\ psize' = [psize EXCEPT ![p] = 0]
    /\ UNCHANGED <<submits, enqueued, accepted>>
    /\ UNCHANGED <<ctorVars, poolVars, workerVars, tickets>>

\* Line 153: return true; the call and its bookkeeping end.
AppendReturnTrue(p) ==
    /\ ppc[p] = "ret_true"
    /\ pret' = [pret EXCEPT ![p] = TRUE]
    /\ accepted' = [accepted EXCEPT ![preq[p]] = @ + 1]
    /\ ppc' = [ppc EXCEPT ![p] = "idle"]
    /\ preq' = [preq EXCEPT ![p] = NULL]
    /\ pposts' = [pposts EXCEPT ![p] = 0]
    /\ psize' = [psize EXCEPT ![p] = 0]
    /\ UNCHANGED <<submits, enqueued>>
    /\ UNCHANGED <<ctorVars, poolVars, workerVars, tickets>>

(* -------------------------------- run --------------------------------- *)
\* Line 202: m_workqueue.empty().
QueueEmpty(q) == Len(q) = 0

\* A front() that returns the last element.
Back(q) == q[Len(q)]

\* Line 210: m_workqueue.front().
Front(q) == Head(q)

\* A pop_front that leaves the head in place.
PopFrontKeepsHead(q) == q

\* Line 211: m_workqueue.pop_front().
PopFront(q) == Tail(q)

\* Line 187: while (!m_stop).
RunTop(w) ==
    /\ wpc[w] = "top"
    /\ wpc' = [wpc EXCEPT ![w] = IF m_stop THEN "exit" ELSE "wait"]
    /\ UNCHANGED <<wreq, executed, runs, dequeued>>
    /\ UNCHANGED <<ctorVars, poolVars, producerVars, tickets>>

\* A wait() that returns without decrementing the semaphore.
RunWaitNoDecrement(w) ==
    /\ wpc[w] = "wait"
    /\ SemWaitEnabled
    /\ wpc' = [wpc EXCEPT ![w] = "lock"]
    /\ UNCHANGED <<wreq, executed, runs, dequeued>>
    /\ UNCHANGED <<ctorVars, poolVars, producerVars, tickets>>

\* A wait() after which the stop flag is tested again.
RunWaitExitsOnStop(w) ==
    /\ wpc[w] = "wait"
    /\ SemWaitEnabled
    /\ m_queuestat' = m_queuestat - 1
    /\ wpc' = [wpc EXCEPT ![w] = IF m_stop THEN "exit" ELSE "lock"]
    /\ UNCHANGED <<m_stop, m_workqueue, m_queuelocker>>
    /\ UNCHANGED <<wreq, executed, runs, dequeued>>
    /\ UNCHANGED <<ctorVars, producerVars, tickets>>

\* Line 194: m_queuestat.wait().
RunWait(w) ==
    /\ wpc[w] = "wait"
    /\ SemWaitEnabled
    /\ m_queuestat' = m_queuestat - 1
    /\ wpc' = [wpc EXCEPT ![w] = "lock"]
    /\ UNCHANGED <<m_stop, m_workqueue, m_queuelocker>>
    /\ UNCHANGED <<wreq, executed, runs, dequeued>>
    /\ UNCHANGED <<ctorVars, producerVars, tickets>>

\* Line 200: m_queuelocker.lock().
RunLock(w) ==
    /\ wpc[w] = "lock"
    /\ LockEnabled
    /\ m_queuelocker' = WorkerThread(w)
    /\ wpc' = [wpc EXCEPT ![w] = "empty"]
    /\ UNCHANGED <<m_stop, m_workqueue, m_queuestat>>
    /\ UNCHANGED <<wreq, executed, runs, dequeued>>
    /\ UNCHANGED <<ctorVars, producerVars, tickets>>

\* Line 202: the emptiness test.
RunEmptyCheck(w) ==
    /\ wpc[w] = "empty"
    /\ wpc' = [wpc EXCEPT ![w] =
                 IF QueueEmpty(m_workqueue) THEN "unlock_empty" ELSE "front"]
    /\ UNCHANGED <<wreq, executed, runs, dequeued>>
    /\ UNCHANGED <<ctorVars, poolVars, producerVars, tickets>>

\* Line 210: T* request = m_workqueue.front().
RunFront(w) ==
    /\ wpc[w] = "front"
    /\ wreq' = [wreq EXCEPT ![w] = Front(m_workqueue)]
    /\ wpc' = [wpc EXCEPT ![w] = "pop"]
    /\ UNCHANGED <<executed, runs, dequeued>>
    /\ UNCHANGED <<ctorVars, poolVars, producerVars, tickets>>

\* A pop_front() after which the unlock() of line 212 is left out.
RunPopSkipsUnlock(w) ==
    /\ wpc[w] = "pop"
    /\ dequeued' = Append(dequeued, Front(m_workqueue).ticket)
    /\ m_workqueue' = PopFront(m_workqueue)
    /\ wpc' = [wpc EXCEPT ![w] = "null"]
    /\ UNCHANGED <<m_stop, m_queuelocker, m_queuestat>>
    /\ UNCHANGED <<wreq, executed, runs>>
    /\ UNCHANGED <<ctorVars, producerVars, tickets>>

\* Line 211: m_workqueue.pop_front().
RunPop(w) ==
    /\ wpc[w] = "pop"
    /\ dequeued' = Append(dequeued, Front(m_workqueue).ticket)
    /\ m_workqueue' = PopFront(m_workqueue)
    /\ wpc' = [wpc EXCEPT ![w] = "unlock"]
    /\ UNCHANGED <<m_stop, m_queuelocker, m_queuestat>>
    /\ UNCHANGED <<wreq, executed, runs>>
    /\ UNCHANGED <<ctorVars, producerVars, tickets>>

\* An unlock() of the worker that leaves the mutex locked.
RunUnlockKeepsMutex(w) ==
    /\ wpc[w] \in {"unlock_empty", "unlock"}
    /\ wpc' = [wpc EXCEPT ![w] = IF wpc[w] = "unlock_empty" THEN "top" ELSE "null"]
    /\ UNCHANGED <<wreq, executed, runs, dequeued>>
    /\ UNCHANGED <<ctorVars, poolVars, producerVars, tickets>>

\* Lines 207-208 and 212: m_queuelocker.unlock(); after the unlock of the
\* empty branch `continue` goes back to the loop test.
RunUnlock(w) ==
    /\ wpc[w] \in {"unlock_empty", "unlock"}
    /\ m_queuelocker' = NoThread
    /\ wpc' = [wpc EXCEPT ![w] = IF wpc[w] = "unlock_empty" THEN "top" ELSE "null"]
    /\ UNCHANGED <<m_stop, m_workqueue, m_queuestat>>
    /\ UNCHANGED <<wreq, executed, runs, dequeued>>
    /\ UNCHANGED <<ctorVars, producerVars, tickets>>

\* A loop body without the null test: every request goes on to process().
RunNullCheckMissing(w) ==
    /\ wpc[w] = "null"
    /\ wpc' = [wpc EXCEPT ![w] = "process"]
    /\ UNCHANGED <<wreq, executed, runs, dequeued>>
    /\ UNCHANGED <<ctorVars, poolVars, producerVars, tickets>>

\* Lines 213-219: a null request is skipped; `continue` ends the iteration
\* and with it the scope of the local variable request.
RunNullCheck(w) ==
    /\ wpc[w] = "null"
    /\ IF wreq[w].request = NULL
       THEN /\ wpc' = [wpc EXCEPT ![w] = "top"]
            /\ wreq' = [wreq EXCEPT ![w] = NoEntry]
       ELSE /\ wpc' = [wpc EXCEPT ![w] = "process"]
            /\ UNCHANGED wreq
    /\ UNCHANGED <<executed, runs, dequeued>>
    /\ UNCHANGED <<ctorVars, poolVars, producerVars, tickets>>

\* Line 225: request->process() is called.
RunProcess(w) ==
    /\ wpc[w] = "process"
    /\ executed' = [executed EXCEPT ![wreq[w].request] = @ + 1]
    /\ runs' = [runs EXCEPT ![wreq[w].ticket] = @ + 1]
    /\ wpc' = [wpc EXCEPT ![w] = "running"]
    /\ UNCHANGED <<wreq, dequeued>>
    /\ UNCHANGED <<ctorVars, poolVars, producerVars, tickets>>

\* Line 225: process() returns; the iteration ends, and with it the scope of
\* the local variable request, and the loop goes back to its test.
RunProcessReturn(w) ==
    /\ wpc[w] = "running"
    /\ wpc' = [wpc EXCEPT ![w] = "top"]
    /\ wreq' = [wreq EXCEPT ![w] = NoEntry]
    /\ UNCHANGED <<executed, runs, dequeued>>
    /\ UNCHANGED <<ctorVars, poolVars, producerVars, tickets>>

(* --------------------------- specification ---------------------------- *)
Constructor == CtorCheck \/ CtorAlloc \/ CtorCreate \/ CtorDetach

ProducerStep(p) ==
    \/ \E r \in Requests : AppendCall(p, r)
    \/ AppendLock(p)
    \/ AppendCheck(p)
    \/ AppendUnlockFull(p)
    \/ AppendPush(p)
    \/ AppendUnlock(p)
    \/ AppendPost(p)
    \/ AppendReturnFalse(p)
    \/ AppendReturnTrue(p)

WorkerStep(w) ==
    \/ RunTop(w)
    \/ RunWait(w)
    \/ RunLock(w)
    \/ RunEmptyCheck(w)
    \/ RunFront(w)
    \/ RunPop(w)
    \/ RunUnlock(w)
    \/ RunNullCheck(w)
    \/ RunProcess(w)
    \/ RunProcessReturn(w)

Next ==
    \/ Constructor
    \/ Destructor
    \/ \E p \in Producers : ProducerStep(p)
    \/ \E w \in Workers : WorkerStep(w)

Spec == Init /\ [][Next]_vars

(* Scheduling assumptions for the progress properties. *)
\* The steps of producer p inside append(), once it has called it.
AppendStep(p) ==
    \/ AppendLock(p)
    \/ AppendCheck(p)
    \/ AppendUnlockFull(p)
    \/ AppendPush(p)
    \/ AppendUnlock(p)
    \/ AppendPost(p)
    \/ AppendReturnFalse(p)
    \/ AppendReturnTrue(p)

\* The pool is never destroyed.
NextNoStop ==
    \/ Constructor
    \/ \E p \in Producers : ProducerStep(p)
    \/ \E w \in Workers : WorkerStep(w)

\* Every thread that can take a step eventually takes one, every process()
\* returns, and the destructor never runs.
FairSpec ==
    /\ Init
    /\ [][NextNoStop]_vars
    /\ \A p \in Producers : WF_vars(AppendStep(p))
    /\ \A w \in Workers : WF_vars(WorkerStep(w))

\* The steps of worker w between its lock() and its unlock().
MutexStep(w) == RunEmptyCheck(w) \/ RunFront(w) \/ RunPop(w) \/ RunUnlock(w)

\* Every producer inside append() that can take a step eventually takes
\* one, and so does every worker that owns the mutex.  Nothing else is
\* assumed of the workers: a process() need not return, a worker need not
\* leave wait() or get the mutex, and the destructor may run.
SubmitFairSpec ==
    /\ Init
    /\ [][Next]_vars
    /\ \A p \in Producers : WF_vars(AppendStep(p))
    /\ \A w \in Workers : WF_vars(MutexStep(w))

(* A process() that throws. *)
\* Line 225: process() throws.  Neither run() (lines 185-228) nor worker()
\* (lines 162-179), the start routine of the thread, has a handler.
RunProcessThrow(w) ==
    /\ wpc[w] = "running"
    /\ wpc' = [wpc EXCEPT ![w] = "terminated"]
    /\ UNCHANGED <<wreq, executed, runs, dequeued>>
    /\ UNCHANGED <<ctorVars, poolVars, producerVars, tickets>>

\* An exception that would end only the thread that threw it.
NeverTerminated == FALSE

\* An exception has left the start routine of a thread: the C++ runtime has
\* called std::terminate, which ends the program with all its threads.
Terminated == \E w \in Workers : wpc[w] = "terminated"

\* The pool with tasks that can throw: no thread takes a step once the
\* program is terminated.
NextFault ==
    /\ ~Terminated
    /\ \/ Next
       \/ \E w \in Workers : RunProcessThrow(w)

FaultSpec == Init /\ [][NextFault]_vars

TypeOK ==
    /\ thread_number \in ThreadNumberArgs
    /\ max_requests \in MaxRequestsArgs
    /\ ctor \in {"check", "alloc", "create", "detach", "done", "failed"}
    /\ created \in 0..MaxWorkers
    /\ m_stop \in BOOLEAN
    /\ m_queuestat \in Nat
    /\ submits \in 0..MaxSubmits
    /\ tickets \in 0..MaxSubmits

(* ======================== properties of the pool ====================== *)
\* The arrival numbers of the entries now in the queue.
QueueTickets == {m_workqueue[i].ticket : i \in DOMAIN m_workqueue}

\* The worker has removed an entry from the queue and has not finished with it.
Holds(w) == wpc[w] \in {"unlock", "null", "process", "running"}

\* The producers whose current append(r) has pushed r and not yet returned.
Returning(r) ==
    {p \in Producers : ppc[p] \in {"unlock", "post", "ret_true"} /\ preq[p] = r}

(* ------------------------------- C1 ----------------------------------- *)
\* C1 as stated: the number of executions of a task never exceeds the number
\* of append() calls for it that have returned true.
C1_ExecutedAtMostReturnedTrue ==
    \A r \in Requests : executed[r] <= accepted[r]

\* C1, amended: the number of executions of a task never exceeds the number
\* of append() calls for it that have pushed it (each of them returns true,
\* possibly after the execution); no insertion is executed more than once,
\* only removed insertions are executed, and an entry a worker has removed is
\* neither in the queue nor held by another worker.
C1_ExecutedAtMostOncePerAccepted ==
    /\ \A r \in Requests :
          /\ executed[r] <= enqueued[r]
          /\ enqueued[r] = accepted[r] + Cardinality(Returning(r))
    /\ executed[NULL] = 0
    /\ \A t \in Tickets :
          /\ runs[t] <= 1
          /\ runs[t] = 1 => \E i \in DOMAIN dequeued : dequeued[i] = t
    /\ \A i, j \in DOMAIN dequeued : i # j => dequeued[i] # dequeued[j]
    /\ \A w \in Workers : Holds(w) => wreq[w].ticket \notin QueueTickets
    /\ \A w1, w2 \in Workers :
          (w1 # w2 /\ Holds(w1) /\ Holds(w2)) => wreq[w1].ticket # wreq[w2].ticket

\* Two workers execute two accepted insertions of the same task at once.
C1_Witness ==
    /\ \A w \in Workers : wpc[w] = "running"
    /\ \E r \in Requests : executed[r] = 2 /\ enqueued[r] = 2

(* ------------------------------- C3 ----------------------------------- *)
\* The steps by which producer p returns from append().
Returns(p) == ppc[p] \in {"ret_false", "ret_true"} /\ ppc'[p] = "idle"

\* C3: append() returns false iff the queue length it read under the mutex
\* equals max_requests; otherwise it puts its request at the tail, the
\* length grows by exactly one and it returns true.
C3_Branch ==
    \A p \in Producers :
       /\ ppc[p] \in {"check", "push", "unlock", "unlock_full"}
             => m_queuelocker = ProducerThread(p)
       /\ ppc[p] \in {"unlock_full", "ret_false"} => psize[p] = max_requests
       /\ ppc[p] \in {"push", "unlock", "post", "ret_true"} => psize[p] < max_requests
       /\ ppc[p] = "push" => psize[p] = Len(m_workqueue)

C3_Step ==
    \A p \in Producers :
       /\ Returns(p) => ((pret'[p] = FALSE) <=> (psize[p] = max_requests))
       /\ (ppc[p] = "push" /\ ppc'[p] # "push") =>
             /\ Len(m_workqueue') = Len(m_workqueue) + 1
             /\ SubSeq(m_workqueue', 1, Len(m_workqueue)) = m_workqueue
             /\ m_workqueue'[Len(m_workqueue')].request = preq[p]
             /\ ppc'[p] = "unlock"
       /\ (ppc[p] = "unlock" /\ ppc'[p] # "unlock") => ppc'[p] = "post"
       /\ (ppc[p] = "post" /\ ppc'[p] # "post") => ppc'[p] = "ret_true"
       /\ (ppc[p] = "unlock_full" /\ ppc'[p] # "unlock_full") => ppc'[p] = "ret_false"

C3_AppendResult == [](C3_Branch) /\ [][C3_Step]_vars

\* One producer has been rejected at a full queue right after another one
\* was accepted.
C3_Witness ==
    \E p, q \in Producers :
       /\ ppc[p] = "ret_false" /\ psize[p] = max_requests
       /\ ppc[q] = "idle" /\ pret[q] = TRUE

(* ------------------------------- C4 ----------------------------------- *)
\* C4: the length of the queue of a constructed pool is always between 0
\* and max_requests; without a constructed pool the queue is empty.
C4_QueueLengthBounded ==
    IF ctor = "done" THEN Len(m_workqueue) \in 0..max_requests
                     ELSE Len(m_workqueue) = 0

\* The queue is full while a producer is about to test it and a worker is
\* about to take from it.
C4_Witness ==
    /\ Len(m_workqueue) = max_requests
    /\ max_requests = MaxRequests
    /\ \E p \in Producers : ppc[p] = "lock"
    /\ \E w \in Workers : wpc[w] = "lock"

(* ------------------------------- C5 ----------------------------------- *)
\* C5: requests leave the queue in the order in which they entered it: the
\* k-th removal takes the k-th insertion, whichever worker does it, and the
\* queue holds the insertions not yet removed in their order of arrival.
C5_FifoOrder ==
    /\ \A i \in DOMAIN dequeued : dequeued[i] = i
    /\ \A i \in DOMAIN m_workqueue : m_workqueue[i].ticket = Len(dequeued) + i
    /\ Len(dequeued) + Len(m_workqueue) = tickets
    /\ \A w \in Workers :
          /\ wpc[w] = "pop" => wreq[w] = m_workqueue[1]
          /\ Holds(w) => \E i \in DOMAIN dequeued : dequeued[i] = wreq[w].ticket

\* Two workers hold the two requests they removed one after the other.
C5_Witness ==
    /\ Len(dequeued) >= 2
    /\ \A w \in Workers : Holds(w)
    /\ \E w1, w2 \in Workers : wreq[w1].ticket < wreq[w2].ticket

(* ------------------------------- C7 ----------------------------------- *)
\* The steps of producer p on the rejecting path of append().
RejectStep(p) ==
    /\ ppc'[p] # ppc[p]
    /\ \/ ppc'[p] \in {"unlock_full", "ret_false"}
       \/ ppc[p] = "ret_false"

C7_Posts ==
    /\ \A p \in Producers :
          /\ ppc[p] \in {"lock", "check", "push", "unlock", "post"} => pposts[p] = 0
          /\ ppc[p] \in {"unlock_full", "ret_false"} => pposts[p] = 0
          /\ ppc[p] = "ret_true" => pposts[p] = 1
          /\ ppc[p] = "idle" => pposts[p] = 0
    /\ \A r \in Requests : enqueued[r] = 0 => executed[r] = 0

C7_Frame ==
    \A p \in Producers :
       RejectStep(p) => /\ m_workqueue' = m_workqueue
                        /\ m_queuestat' = m_queuestat
                        /\ enqueued' = enqueued
                        /\ executed' = executed

\* C7: a rejected append() changes neither the queue nor the semaphore and
\* posts nothing, a request that was only rejected is never executed, and an
\* append() that returns true has posted exactly once.
C7_RejectHasNoEffect == [](C7_Posts) /\ [][C7_Frame]_vars

\* A producer is about to return false from a full queue while another one
\* is about to return true.
C7_Witness ==
    \E p, q \in Producers :
       /\ ppc[p] = "ret_false" /\ pposts[p] = 0
       /\ ppc[q] = "ret_true" /\ pposts[q] = 1
       /\ Len(m_workqueue) = max_requests

(* ------------------------------- C8 ----------------------------------- *)
\* C8 as stated: whenever no thread holds the mutex the semaphore value
\* equals the queue length.
C8_SemaphoreEqualsLengthOutsideMutex ==
    m_queuelocker = NoThread => m_queuestat = Len(m_workqueue)

\* No thread holds the mutex, no producer is between its unlock and its
\* post, and no worker is between its wait and its lock.
Settled ==
    /\ m_queuelocker = NoThread
    /\ \A p \in Producers : ppc[p] # "post"
    /\ \A w \in Workers : wpc[w] # "lock"

\* C8, amended: the semaphore value equals the queue length in every state
\* in which no thread holds the mutex, no producer has pushed without having
\* posted yet, and no worker has returned from wait() without having locked
\* the mutex yet.
C8_SemaphoreEqualsLengthWhenSettled ==
    Settled => m_queuestat = Len(m_workqueue)

\* A settled pool with a full queue while a worker executes a request.
C8_Witness ==
    /\ Settled
    /\ Len(m_workqueue) = MaxRequests
    /\ \E w \in Workers : wpc[w] = "running"

(* ------------------------------- C9 ----------------------------------- *)
\* The threads that are between a lock() and the matching unlock(); every
\* statement that reads or writes m_workqueue lies in one of these places.
InsideMutex ==
    {ProducerThread(p) : p \in {q \in Producers :
         ppc[q] \in {"check", "push", "unlock", "unlock_full"}}}
    \cup
    {WorkerThread(w) : w \in {v \in Workers :
         wpc[v] \in {"empty", "front", "pop", "unlock", "unlock_empty"}}}

\* C9: at most one thread is between lock() and unlock(), and it is the
\* thread that owns the mutex; so every thread about to read or write the
\* queue owns the mutex.
C9_QueueAccessUnderMutex ==
    /\ Cardinality(InsideMutex) <= 1
    /\ InsideMutex = (IF m_queuelocker = NoThread THEN {} ELSE {m_queuelocker})

\* A worker owns the mutex while a producer and another worker want it.
C9_Witness ==
    /\ \E w \in Workers : m_queuelocker = WorkerThread(w) /\ wpc[w] = "pop"
    /\ \E p \in Producers : ppc[p] = "lock"
    /\ \E w \in Workers : wpc[w] = "lock"

(* ------------------------------- C10 ---------------------------------- *)
\* C10: with thread_number <= 0 or max_requests <= 0 the constructor fails
\* before it creates a thread: no worker exists, and no append() is called.
C10_BadArgsCreateNothing ==
    (thread_number <= 0 \/ max_requests <= 0) =>
       /\ ctor \in {"check", "failed"}
       /\ created = 0
       /\ \A w \in Workers : wpc[w] = "none"
       /\ \A p \in Producers : ppc[p] = "idle"
       /\ submits = 0

\* The constructor has thrown for a positive thread_number and a
\* non-positive max_requests.
C10_Witness ==
    /\ ctor = "failed"
    /\ thread_number > 0
    /\ max_requests <= 0

(* ------------------------------- C2 ----------------------------------- *)
\* C2: with fair scheduling, terminating process() calls and no destructor,
\* every non-null request whose append() returned true is eventually
\* executed, and in the end as many executions as accepted calls were made.
C2_AcceptedEventuallyExecuted ==
    /\ \A r \in Requests \ {NULL} : \A n \in 1..MaxSubmits :
          (accepted[r] >= n) ~> (executed[r] >= n)
    /\ <>[](\A r \in Requests \ {NULL} : executed[r] = accepted[r])

\* Every allowed append() was made for the same task, was accepted, and the
\* task has been executed as many times.
C2_Witness ==
    \E r \in Requests \ {NULL} :
       accepted[r] = MaxSubmits /\ executed[r] = MaxSubmits

(* ------------------------------- C6 ----------------------------------- *)
\* The owner of the mutex is never a worker that is blocked in wait(),
\* waiting for the mutex, or executing a request.
C6_OwnerNotBlocked ==
    \A w \in Workers :
       m_queuelocker = WorkerThread(w) =>
          wpc[w] \in {"empty", "front", "pop", "unlock", "unlock_empty"}

\* C6: every append() returns, whatever the workers do apart from leaving
\* the mutex they own: the only wait of append() is the one for the mutex,
\* which no worker owns while it is blocked or executes a request.
C6_AppendReturns ==
    /\ [](C6_OwnerNotBlocked)
    /\ \A p \in Producers : (ppc[p] # "idle") ~> (ppc[p] = "idle")

\* A producer is rejected at a full queue while every worker of the pool is
\* executing a request.
C6_Witness ==
    /\ ctor = "done"
    /\ \A w \in 1..thread_number : wpc[w] = "running"
    /\ Len(m_workqueue) = max_requests
    /\ \E p \in Producers : ppc[p] = "ret_false"


(* ------------------------------- C11 ---------------------------------- *)
\* Worker w is blocked in m_queuestat.wait(): the semaphore is at 0.
Blocked(w) == wpc[w] = "wait" /\ m_queuestat = 0

\* The step is a post(): the semaphore goes up.
PostStep == m_queuestat' > m_queuestat

C11_Step ==
    /\ \A w \in Workers :
          (m_stop /\ Blocked(w) /\ ~PostStep) => (wpc'[w] = "wait" /\ m_queuestat' = 0)
    /\ (~m_stop /\ m_stop') => (m_queuestat' = m_queuestat /\ wpc' = wpc)
    /\ PostStep => \E p \in Producers : ppc[p] = "post" /\ ppc'[p] = "ret_true"

\* C11: the destructor sets the stop flag without posting the semaphore or
\* moving any worker, only append() posts, and a worker that is blocked in
\* wait() once the flag is set stays blocked there, with the flag unread,
\* over every step that is not a post.
C11_StopDoesNotWakeBlockedWorker == [][C11_Step]_vars

\* The flag is set, a worker is blocked in wait(), and no append() call is
\* under way or can still be made: the worker stays there for ever.
C11_Witness ==
    /\ m_stop
    /\ \E w \in Workers : Blocked(w)
    /\ \A p \in Producers : ppc[p] = "idle"
    /\ submits = MaxSubmits


(* ------------------------------- C12 ---------------------------------- *)
\* C12: once the constructor has failed, no worker thread of the pool is
\* left running: every worker either was never created or has ended.
C12_NoWorkerAfterFailedConstruction ==
    ctor = "failed" => \A w \in Workers : wpc[w] \in {"none", "exit"}


PostPending == {p \in Producers : ppc[p] \in {"unlock", "post"}}

\* The workers that have returned from wait() and not yet removed a request.
PopPending == {w \in Workers : wpc[w] \in {"lock", "empty", "front", "pop"}}

\* C14: the queue length is the semaphore value plus the number of producers
\* between push_back and post plus the number of workers between wait and
\* pop_front; so the semaphore value and the number of such workers never
\* exceed the queue length.
C14_Accounting ==
    /\ Len(m_workqueue) =
          m_queuestat + Cardinality(PostPending) + Cardinality(PopPending)
    /\ m_queuestat >= 0
    /\ m_queuestat <= Len(m_workqueue)
    /\ Cardinality(PopPending) <= Len(m_workqueue)

\* The queue is full while the semaphore is at 0: one request is pushed and
\* not yet posted, the other is posted and awaited but not yet removed.
C14_Witness ==
    /\ Len(m_workqueue) = MaxRequests
    /\ m_queuestat = 0
    /\ PostPending # {}
    /\ PopPending # {}


(* ------------------------------- C15 ---------------------------------- *)
C15_NullNeverProcessed ==
    /\ executed[NULL] = 0
    /\ \A w \in Workers :
          wpc[w] \in {"process", "running"} => wreq[w].request # NULL
    /\ \A p \in Producers :
          (preq[p] = NULL /\ ppc[p] = "ret_true") => pposts[p] = 1
    /\ ctor = "done" => Len(m_workqueue) <= max_requests

C15_Step ==
    /\ \A p \in Producers :
          /\ (preq[p] = NULL /\ ppc[p] = "check" /\ ppc'[p] # "check") =>
                ppc'[p] = (IF Len(m_workqueue) = max_requests THEN "unlock_full"
                                                              ELSE "push")
          /\ (preq[p] = NULL /\ ppc[p] = "push" /\ ppc'[p] # "push") =>
                /\ Len(m_workqueue') = Len(m_workqueue) + 1
                /\ m_workqueue'[Len(m_workqueue')].request = NULL
          /\ (preq[p] = NULL /\ ppc[p] = "post" /\ ppc'[p] # "post") =>
                /\ m_queuestat' = m_queuestat + 1
                /\ ppc'[p] = "ret_true"
          /\ (preq[p] = NULL /\ ppc[p] = "ret_true" /\ ppc'[p] # "ret_true") =>
                pret'[p] = TRUE
    /\ \A w \in Workers :
          /\ (wpc[w] = "pop" /\ wpc'[w] # "pop") => m_workqueue' = Tail(m_workqueue)
          /\ (wreq[w].request = NULL /\ wpc[w] = "null" /\ wpc'[w] # "null") =>
                /\ wpc'[w] = "top"
                /\ executed' = executed
                /\ runs' = runs
                /\ m_workqueue' = m_workqueue
          /\ (~m_stop /\ wpc[w] = "top" /\ wpc'[w] # "top") => wpc'[w] = "wait"

\* C15: append(NULL) is treated like any other append: it is rejected only
\* at a full queue, takes one place in the queue, posts once and returns
\* true; the worker that removes the null request calls no process() and
\* goes back to the loop test and to wait(), and the removal leaves the
\* requests behind it in the queue in their order.
C15_NullRequestSkipped == [](C15_NullNeverProcessed) /\ [][C15_Step]_vars

\* A null request was accepted first and removed, and the request accepted
\* behind it is being executed.
C15_Witness ==
    /\ tickets = 2
    /\ enqueued[NULL] = 1
    /\ accepted[NULL] = 1
    /\ \E w \in Workers : wpc[w] = "running" /\ wreq[w].ticket = 2


(* ------------------------------- C16 ---------------------------------- *)
\* Worker w has released the mutex after pop_front and is about to execute,
\* or is executing, the request it removed.
Executing(w) == wpc[w] \in {"null", "process", "running"}

\* C16: a worker that executes a request does not own the mutex: the mutex
\* is then free or owned by a thread that is not executing a request.
C16_MutexNotHeldWhileExecuting ==
    \A w \in Workers :
       Executing(w) =>
          /\ m_queuelocker # WorkerThread(w)
          /\ \/ m_queuelocker = NoThread
             \/ \E p \in Producers : m_queuelocker = ProducerThread(p)
             \/ \E v \in Workers : m_queuelocker = WorkerThread(v) /\ ~Executing(v)

\* Every worker of a pool of MaxWorkers threads is inside process() while a
\* producer owns the mutex and is about to push one more request.
C16_Witness ==
    /\ thread_number = MaxWorkers
    /\ \A w \in Workers : wpc[w] = "running"
    /\ \E p \in Producers : ppc[p] = "push" /\ m_queuelocker = ProducerThread(p)


(* ------------------------------- C17 ---------------------------------- *)
\* Worker w takes a step from the place pc.
Leaves(w, pc) == wpc[w] = pc /\ wpc'[w] # pc

C17_Step ==
    \A w \in Workers :
       \* the loop is left only at its test, and only when the flag is read set
       /\ (wpc[w] # "exit" /\ wpc'[w] = "exit") => (wpc[w] = "top" /\ m_stop)
       /\ Leaves(w, "top") => wpc'[w] = (IF m_stop THEN "exit" ELSE "wait")
       /\ wpc[w] = "exit" => wpc'[w] = "exit"
       \* past the test the flag plays no part: the worker woken by a post
       \* removes the head request and executes it
       /\ Leaves(w, "wait") => wpc'[w] = "lock"
       /\ Leaves(w, "lock") => wpc'[w] = "empty"
       /\ Leaves(w, "empty") => wpc'[w] = "front"
       /\ Leaves(w, "front") => (wpc'[w] = "pop" /\ wreq'[w] = m_workqueue[1])
       /\ Leaves(w, "pop") => (wpc'[w] = "unlock" /\ m_workqueue' = Tail(m_workqueue))
       /\ Leaves(w, "unlock") => wpc'[w] = "null"
       /\ Leaves(w, "null") =>
             wpc'[w] = (IF wreq[w].request = NULL THEN "top" ELSE "process")
       /\ Leaves(w, "process") =>
             /\ wpc'[w] = "running"
             /\ executed'[wreq[w].request] = executed[wreq[w].request] + 1
       \* after a removal the next place where the worker can start another
       \* one is the loop test
       /\ Leaves(w, "running") => wpc'[w] = "top"

\* C17: run() reads the stop flag only in its loop test: a worker ends only
\* there and only on reading it set, a worker that is past the test removes
\* and executes its request whatever the flag is, and every iteration has
\* one removal and ends at the test; so once the flag is set a worker does
\* at most the removal of the iteration it is in.
C17_StopReadOnlyAtLoopTest == [][C17_Step]_vars

\* With the flag set, one worker has ended at the loop test while the other,
\* which was past the test, is removing a request.
C17_Witness ==
    /\ m_stop
    /\ \E w \in Workers : wpc[w] = "exit"
    /\ \E w \in Workers : wpc[w] = "pop"


C18_Step ==
    \* nothing runs after the throw: no worker, no producer
    /\ \A w \in Workers : wpc[w] # "terminated"
    \* the throw is not caught: it comes straight from inside process()
    /\ \A w \in Workers :
          (wpc'[w] = "terminated") => (wpc[w] = "running" /\ wreq'[w] = wreq[w])
    \* no thread is created after the constructor has ended
    /\ ctor \in {"done", "failed"} =>
          \A w \in Workers : wpc[w] = "none" => wpc'[w] = "none"

AllWorkersGone == ctor = "done" /\ \A w \in 1..thread_number : wpc[w] = "exit"

C19_Step ==
    /\ m_stop => m_stop'
    /\ \A p \in Producers :
          /\ (m_stop /\ ppc[p] = "check" /\ ppc'[p] # "check") =>
                ppc'[p] = (IF Len(m_workqueue) < max_requests THEN "push"
                                                              ELSE "unlock_full")
          /\ (m_stop /\ ppc[p] = "push" /\ ppc'[p] # "push") =>
                /\ Len(m_workqueue') = Len(m_workqueue) + 1
                /\ ppc'[p] = "unlock"
          /\ (m_stop /\ ppc[p] = "post" /\ ppc'[p] # "post") =>
                /\ m_queuestat' = m_queuestat + 1
                /\ ppc'[p] = "ret_true"
          /\ (m_stop /\ ppc[p] = "ret_true" /\ ppc'[p] # "ret_true") =>
                pret'[p] = TRUE
    /\ AllWorkersGone =>
          /\ wpc' = wpc
          /\ executed' = executed
          /\ dequeued' = dequeued
          /\ Len(m_workqueue') >= Len(m_workqueue)

\* C19: append() does not read the stop flag: with the flag set it still
\* pushes, posts and returns true whenever the queue is below max_requests;
\* and once the workers have left run() nothing is removed from the queue or
\* executed any more.
C19_AppendIgnoresStop == [][C19_Step]_vars

\* All workers have left run() and every append() has returned, one of them
\* with true for a request that is still in the queue and was never executed.
C19_Witness ==
    /\ AllWorkersGone
    /\ \A p \in Producers : ppc[p] = "idle"
    /\ \E r \in Requests \ {NULL} : accepted[r] > executed[r]
    /\ Len(m_workqueue) > 0


(* ------------------------------- C20 ---------------------------------- *)
\* The workers that are inside process().
InProcess == {w \in Workers : wpc[w] = "running"}

\* Worker w holds a request while an insertion made after it has already
\* been given to process().
Overtaken(w) == Holds(w) /\ \E t \in Tickets : t > wreq[w].ticket /\ runs[t] >= 1

\* C20: the threads inside process() are never more than thread_number;
\* with thread_number = 1 no two executions overlap and no request is given
\* to process() while the worker still holds an earlier one, so the
\* executions start and end in the order of insertion.
C20_ExecutionOrder ==
    /\ \A w \in Workers : wpc[w] # "none" => w <= thread_number
    /\ Cardinality(InProcess) <= (IF thread_number > 0 THEN thread_number ELSE 0)
    /\ thread_number = 1 =>
          /\ Cardinality(InProcess) <= 1
          /\ \A w \in Workers : ~Overtaken(w)
          /\ \A t \in Tickets : runs[t] >= 1 =>
                \A i \in 1..t : \E j \in DOMAIN dequeued : dequeued[j] = i

\* With two workers the second insertion has been executed to its end while
\* the first one, removed earlier, has not been given to process() yet.
C20_Witness ==
    /\ thread_number = 2
    /\ \E w \in Workers :
          /\ wpc[w] = "process"
          /\ wreq[w].ticket = 1
          /\ runs[2] = 1
          /\ \A v \in Workers : v # w => wpc[v] = "top"

====
